---- MODULE Spec2Model ----
(***************************************************************************)
(* WarFrontIO/MapCodec: the map encoder (MapEncoder, ZoneCalculator), the  *)
(* map decoder (MapDecoder) and the two entry points encodeMap/decodeMap.  *)
(* Cell indices, zone ids and array positions are 0-based as in the source;*)
(* a JavaScript array is a sequence read through Get (index + 1).          *)
(***************************************************************************)
EXTENDS Integers, Sequences, FiniteSets, TLC

\* ------------------------------------------------------------------ bounds
\* Exhaustively enumerated maps have at most MaxCells cells, tile values in
\* 0..MaxTile and 1..MaxTypes palette entries.
MaxCells == 4
MaxTile == 1
MaxTypes == 2
\* Height of the one-column maps whose left border stitches into a single
\* segment of TallHeight cells.
TallHeight == 513
\* Height of the map of two columns in which every cell is a zone of its own.
WideHeight == 32768

\* ------------------------------------------------------- program constants
CURRENT_VERSION == 0
MINIMUM_VERSION == 0
\* Uint16Array element width (zoneMap, tiles, decoder result)
U16 == 65536
\* side of a chunk
ChunkSize == 32
\* longest line a record can hold (8-bit length - 1)
MaxLineLength == 256
\* longest path the breadth-first search follows
MaxPathLength == 8

\* ---------------------------------------------------------------- helpers
\* The value JavaScript reads outside an array: undefined.
Undef == -1

Get(arr, idx) == IF idx >= 0 /\ idx < Len(arr) THEN arr[idx + 1] ELSE Undef

InSeq(x, s) == \E k \in 1..Len(s) : s[k] = x

Min(S) == CHOOSE x \in S : \A y \in S : x <= y

\* Array.prototype.indexOf: the first index holding x, -1 when absent.
IndexOf(s, x) ==
    LET hits == {k \in 1..Len(s) : s[k] = x}
    IN IF hits = {} THEN -1 ELSE Min(hits) - 1

RECURSIVE Pow2(_)
Pow2(n) == IF n <= 0 THEN 1 ELSE 2 * Pow2(n - 1)

\* Math.ceil(Math.log2(n)) for n >= 1
RECURSIVE CeilLog2From(_, _)
CeilLog2From(n, k) == IF Pow2(k) >= n THEN k ELSE CeilLog2From(n, k + 1)
CeilLog2(n) == CeilLog2From(n, 0)

\* Math.ceil(a / b) for a >= 0, b > 0
CeilDiv(a, b) == (a + b - 1) \div b

\* A sequence given by its elements, as a tuple.
SeqOf(f) == f \o <<>>

Reverse(s) == SeqOf([k \in 1..Len(s) |-> s[Len(s) + 1 - k]])

\* ------------------------------------------------------------ ZoneCalculator
\* Uint16Array store: kept modulo 2^16 inside the array, dropped outside it.
Store16(arr, idx, v) ==
    IF idx >= 0 /\ idx < Len(arr) THEN [arr EXCEPT ![idx + 1] = v % U16] ELSE arr

\* if (zoneMap[current]) : undefined and 0 are falsy
Truthy(v) == v # Undef /\ v # 0

\* One iteration of the while loop of exploreZone.
\* st = [stack, zoneMap, leftBorder, topBorder]; leftBorderMap / topBorderMap
\* hold exactly the members of leftBorder / topBorder.
ExploreStep(st, tileTypes, width, zoneId) ==
    LET sp == Len(st.stack)
        current == st.stack[sp]
        rest == SubSeq(st.stack, 1, sp - 1)
    IN IF Truthy(Get(st.zoneMap, current))
       THEN [st EXCEPT !.stack = rest]
       ELSE
         LET t == Get(tileTypes, current)
             goLeft == current % width # 0 /\ Get(tileTypes, current - 1) = t
             goRight == current % width # width - 1 /\ Get(tileTypes, current + 1) = t
             goUp == current >= width /\ Get(tileTypes, current - width) = t
             goDown == current < Len(tileTypes) - width /\ Get(tileTypes, current + width) = t
             s1 == IF goLeft THEN Append(rest, current - 1) ELSE rest
             s2 == IF goRight THEN Append(s1, current + 1) ELSE s1
             s3 == IF goUp THEN Append(s2, current - width) ELSE s2
             s4 == IF goDown THEN Append(s3, current + width) ELSE s3
         IN [stack |-> s4,
             zoneMap |-> Store16(st.zoneMap, current, zoneId),
             leftBorder |-> IF ~goLeft /\ ~InSeq(current, st.leftBorder)
                            THEN Append(st.leftBorder, current) ELSE st.leftBorder,
             topBorder |-> IF ~goUp /\ ~InSeq(current, st.topBorder)
                           THEN Append(st.topBorder, current) ELSE st.topBorder]

\* Up to n iterations of the while loop (stackPointer > 0).  The loop is
\* deterministic in [stack, zoneMap, leftBorder, topBorder]: once it is back
\* in a state it was in before, with cells on the stack, it never ends and
\* changes neither zoneMap nor the borders any more, so the run stops there.
RECURSIVE ExploreRun(_, _, _, _, _)
ExploreRun(st, n, tileTypes, width, zoneId) ==
    IF Len(st.stack) = 0 \/ n <= 0 THEN st
    ELSE IF n = 1 THEN ExploreStep(st, tileTypes, width, zoneId)
    ELSE LET half == ExploreRun(st, n \div 2, tileTypes, width, zoneId)
         IN IF Len(half.stack) = 0 \/ half = st THEN half
            ELSE ExploreRun(half, n - (n \div 2), tileTypes, width, zoneId)

\* Iterations of the while loop followed before the call counts as not
\* returning.  A cell inside zoneMap is expanded once and pushes at most four
\* cells, so a map with |tiles| <= width*height needs at most 4*|tiles|+1
\* iterations.  A cell outside zoneMap is never marked: it is expanded each
\* time it is popped, and two such cells of one tile type that are neighbours
\* push each other for ever.  So do the cells of a zone whose id is stored
\* as 0 (zone 65536 in a Uint16Array).
ExploreFuel(tileTypes) == 8 * Len(tileTypes) + 8

\* exploreZone: the zone record, the updated zoneMap, and whether the loop
\* never ends: it is back in an earlier state, or it was still running when
\* the fuel ran out.
ExploreZone(tile, tileTypes, width, zoneMap, zoneId) ==
    LET st == ExploreRun([stack |-> <<tile>>, zoneMap |-> zoneMap,
                          leftBorder |-> <<>>, topBorder |-> <<>>],
                         ExploreFuel(tileTypes), tileTypes, width, zoneId)
    IN [zone |-> [id |-> Get(tileTypes, tile),
                  leftBorder |-> st.leftBorder, topBorder |-> st.topBorder],
        zoneMap |-> st.zoneMap,
        hung |-> Len(st.stack) > 0]

\* The body of the for loop of buildZones for cell i.
\* bz = [result, zoneMap, hung]
BuildZonesAt(bz, i, data) ==
    IF bz.hung \/ Truthy(Get(bz.zoneMap, i)) THEN bz
    ELSE LET ez == ExploreZone(i, data.tiles, data.width, bz.zoneMap, Len(bz.result) + 1)
         IN [result |-> Append(bz.result, ez.zone), zoneMap |-> ez.zoneMap, hung |-> ez.hung]

\* The for loop of buildZones over cells lo..hi, in order.
RECURSIVE BuildZonesLoop(_, _, _, _)
BuildZonesLoop(bz, lo, hi, data) ==
    IF lo > hi THEN bz
    ELSE IF lo = hi THEN BuildZonesAt(bz, lo, data)
    ELSE LET mid == (lo + hi) \div 2
             first == BuildZonesLoop(bz, lo, mid, data)
         IN IF first.hung THEN first ELSE BuildZonesLoop(first, mid + 1, hi, data)

BuildZones(data) ==
    BuildZonesLoop([result |-> <<>>,
                    zoneMap |-> SeqOf([k \in 1..(data.width * data.height) |-> 0]),
                    hung |-> FALSE],
                   0, Len(data.tiles) - 1, data)

\* --------------------------------------------------------------- MapEncoder
\* validateTileTypeUsage: error when a zone's tile type is not in `types`;
\* otherwise the used types in palette order and the zones with their id
\* replaced by the index of their type among the used ones.
UsedTypeIndices(types, zs) ==
    SelectSeq(SeqOf([k \in 1..Len(types) |-> k - 1]),
              LAMBDA i : \E z \in 1..Len(zs) : zs[z].id = i)

\* validateTileTypeUsage with the test types[zone.id] left out: a zone of an
\* unknown tile type is passed on.  C5 tells it apart from
\* validateTileTypeUsage.
ValidateWithoutCheck(types, zs) ==
    LET used == UsedTypeIndices(types, zs)
    IN [error |-> "none",
        usedTypes |-> SeqOf([k \in 1..Len(used) |-> types[used[k] + 1]]),
        zones |-> SeqOf([z \in 1..Len(zs) |->
                           [zs[z] EXCEPT !.id = IndexOf(used, zs[z].id)]])]

ValidateTileTypeUsage(types, zs) ==
    LET used == UsedTypeIndices(types, zs)
    IN IF \E z \in 1..Len(zs) : ~(zs[z].id >= 0 /\ zs[z].id < Len(types))
       THEN [error |-> "UnknownTileType", usedTypes |-> <<>>, zones |-> zs]
       ELSE [error |-> "none",
             usedTypes |-> SeqOf([k \in 1..Len(used) |-> types[used[k] + 1]]),
             zones |-> SeqOf([z \in 1..Len(zs) |->
                                [zs[z] EXCEPT !.id = IndexOf(used, zs[z].id)]])]

\* calculatePaths: one iteration of the while loop.
\* st = [open, paths, visited, result]; result lists the Map's entries in
\* insertion order.
PathVisit(st, nextPoint, path, zoneId, tileMap) ==
    IF nextPoint \notin st.visited /\ Get(tileMap, nextPoint) = zoneId
    THEN [st EXCEPT !.open = Append(@, nextPoint),
                    !.paths = Append(@, Append(path, nextPoint)),
                    !.visited = @ \cup {nextPoint}]
    ELSE st

PathStep(st, pointSet, zoneId, tileMap, width) ==
    LET point == Head(st.open)
        path == Head(st.paths)
        s0 == [open |-> Tail(st.open), paths |-> Tail(st.paths),
               visited |-> st.visited,
               result |-> IF point \in pointSet
                          THEN Append(st.result,
                                      [point |-> point,
                                       path |-> SubSeq(path, 1, Len(path) - 1)])
                          ELSE st.result]
    IN IF Len(path) < MaxPathLength
       THEN PathVisit(PathVisit(PathVisit(PathVisit(s0,
                point - 1, path, zoneId, tileMap),
                point + 1, path, zoneId, tileMap),
                point - width, path, zoneId, tileMap),
                point + width, path, zoneId, tileMap)
       ELSE s0

RECURSIVE PathRun(_, _, _, _, _, _)
PathRun(st, n, pointSet, zoneId, tileMap, width) ==
    IF Len(st.open) = 0 \/ n <= 0 THEN st
    ELSE IF n = 1 THEN PathStep(st, pointSet, zoneId, tileMap, width)
    ELSE LET half == PathRun(st, n \div 2, pointSet, zoneId, tileMap, width)
         IN IF Len(half.open) = 0 THEN half
            ELSE PathRun(half, n - (n \div 2), pointSet, zoneId, tileMap, width)

\* The search visits each cell once and only cells at most MaxPathLength
\* steps of -1, +1, -width, +width away: at most 2*8*9+1 iterations.
PathFuel == 2 * MaxPathLength * (MaxPathLength + 1) + 1

CalculatePaths(start, pointSet, zoneId, tileMap, width) ==
    PathRun([open |-> <<start>>, paths |-> << <<>> >>, visited |-> {start},
             result |-> <<>>],
            PathFuel, pointSet, zoneId, tileMap, width).result

\* calculateConnections: connectionMap as a sequence of MaxPathLength buckets,
\* bucket d+1 holding the connections whose path has d cells.
EmptyConnectionMap == SeqOf([d \in 1..MaxPathLength |-> <<>>])

\* The body of the outer for loop for border point i (0-based).
ConnectionsOf(i, points, pointSet, pointIndex, zoneId, tileMap, width) ==
    LET paths == CalculatePaths(points[i + 1], pointSet, zoneId, tileMap, width)
        kept == SelectSeq(paths, LAMBDA e : ~(pointIndex[e.point] >= i))
    IN SeqOf([d \in 1..MaxPathLength |->
          LET ofLen == SelectSeq(kept, LAMBDA e : Len(e.path) = d - 1)
          IN SeqOf([k \in 1..Len(ofLen) |->
                      [from |-> i, to |-> pointIndex[ofLen[k].point],
                       path |-> ofLen[k].path]])])

RECURSIVE ConnectionsLoop(_, _, _, _, _, _, _, _)
ConnectionsLoop(lo, hi, points, pointSet, pointIndex, zoneId, tileMap, width) ==
    IF lo > hi THEN EmptyConnectionMap
    ELSE IF lo = hi
    THEN ConnectionsOf(lo, points, pointSet, pointIndex, zoneId, tileMap, width)
    ELSE LET mid == (lo + hi) \div 2
             a == ConnectionsLoop(lo, mid, points, pointSet, pointIndex, zoneId, tileMap, width)
             b == ConnectionsLoop(mid + 1, hi, points, pointSet, pointIndex, zoneId, tileMap, width)
         IN IF Len(a) = Len(b)
            THEN SeqOf([d \in 1..MaxPathLength |-> a[d] \o b[d]])
            ELSE EmptyConnectionMap

CalculateConnections(points, zoneId, tileMap, width) ==
    LET pointSet == {points[k] : k \in 1..Len(points)}
        pointIndex == [p \in pointSet |-> IndexOf(points, p)]
    IN ConnectionsLoop(0, Len(points) - 1, points, pointSet, pointIndex,
                       zoneId, tileMap, width)

\* concatSegment without the test segment[0] === ending: the path is always
\* put after the last cell.  C6 tells it apart from concatSegment.
ConcatAtEnd(segment, path, ending, toAdd) ==
    segment \o Reverse(path) \o <<toAdd>>

\* concatSegment: the segment after the call.
ConcatSegment(segment, path, ending, toAdd) ==
    IF Get(segment, 0) = ending
    THEN <<toAdd>> \o path \o segment
    ELSE segment \o Reverse(path) \o <<toAdd>>

\* connectSegments: segmentB after the call, and the value returned, which
\* is read from segmentA after reverse() may have reversed it in place.
ConnectSegments(segmentA, segmentB, startA, startB, path) ==
    LET aFirst == Get(segmentA, 0) = startA
        bFirst == Get(segmentB, 0) = startB
        newB == IF bFirst
                THEN IF aFirst THEN Reverse(segmentA) \o path \o segmentB
                     ELSE segmentA \o path \o segmentB
                ELSE IF aFirst THEN segmentB \o Reverse(path) \o segmentA
                     ELSE segmentB \o Reverse(path) \o Reverse(segmentA)
        reversedA == (bFirst /\ aFirst) \/ (~bFirst /\ ~aFirst)
        afterA == IF reversedA THEN Reverse(segmentA) ELSE segmentA
    IN [segmentB |-> newB,
        start |-> IF Get(afterA, 0) = startA
                  THEN Get(afterA, Len(afterA) - 1) ELSE Get(afterA, 0)]

\* segmentMap[idx] = v on a plain array; an index of -1 sets no element.
SetSegment(segmentMap, idx, v) ==
    IF idx >= 0 /\ idx < Len(segmentMap) THEN [segmentMap EXCEPT ![idx + 1] = v]
    ELSE segmentMap

\* processConnection: the segments and segmentMap after the call and the
\* value returned.  st = [segments, segmentMap, connectionCount].
ProcessConnection(fromIsNew, toIsNew, connection, st, border) ==
    LET valueFrom == border[connection.from + 1]
        valueTo == border[connection.to + 1]
        segFrom == Get(st.segmentMap, connection.from)
        segTo == Get(st.segmentMap, connection.to)
    IN IF fromIsNew /\ toIsNew
       THEN [ok |-> TRUE,
             segments |-> Append(st.segments,
                                 <<valueFrom>> \o connection.path \o <<valueTo>>),
             segmentMap |-> SetSegment(SetSegment(st.segmentMap, connection.to,
                                                  Len(st.segments)),
                                       connection.from, Len(st.segments))]
       ELSE IF fromIsNew
       THEN [ok |-> TRUE,
             segments |-> [st.segments EXCEPT ![segTo + 1] =
                             ConcatSegment(@, connection.path, valueTo, valueFrom)],
             segmentMap |-> SetSegment(st.segmentMap, connection.from, segTo)]
       ELSE IF toIsNew
       THEN [ok |-> TRUE,
             segments |-> [st.segments EXCEPT ![segFrom + 1] =
                             ConcatSegment(@, Reverse(connection.path), valueFrom, valueTo)],
             segmentMap |-> SetSegment(st.segmentMap, connection.to, segFrom)]
       ELSE IF segFrom # segTo
       THEN LET joined == ConnectSegments(st.segments[segFrom + 1], st.segments[segTo + 1],
                                          valueFrom, valueTo, connection.path)
            IN [ok |-> TRUE,
                segments |-> [st.segments EXCEPT ![segTo + 1] = joined.segmentB,
                                                 ![segFrom + 1] = <<>>],
                segmentMap |-> SetSegment(st.segmentMap, IndexOf(border, joined.start), segTo)]
       ELSE [ok |-> FALSE, segments |-> st.segments, segmentMap |-> st.segmentMap]

\* The body of the inner for loop of calculateNeededLines for one connection.
StitchConnection(st, connection, border) ==
    LET countFrom == st.connectionCount[connection.from + 1]
        countTo == st.connectionCount[connection.to + 1]
    IN IF countFrom >= 2 \/ countTo >= 2 THEN st
       ELSE LET r == ProcessConnection(countFrom = 0, countTo = 0, connection, st, border)
            IN IF ~r.ok THEN st
               ELSE [segments |-> r.segments, segmentMap |-> r.segmentMap,
                     connectionCount |->
                        [st.connectionCount EXCEPT ![connection.from + 1] = countFrom + 1,
                                                   ![connection.to + 1] = countTo + 1]]

\* The two nested for loops over connections lo..hi of the buckets taken in
\* order of depth.
RECURSIVE StitchLoop(_, _, _, _, _)
StitchLoop(st, connections, lo, hi, border) ==
    IF lo > hi THEN st
    ELSE IF lo = hi THEN StitchConnection(st, connections[lo], border)
    ELSE LET mid == (lo + hi) \div 2
             first == StitchLoop(st, connections, lo, mid, border)
         IN IF Len(first.segments) < 0 THEN first
            ELSE StitchLoop(first, connections, mid + 1, hi, border)

\* The buckets of a connectionMap one after the other.
RECURSIVE FlattenFrom(_, _)
FlattenFrom(connectionMap, d) ==
    IF d > Len(connectionMap) THEN <<>>
    ELSE connectionMap[d] \o FlattenFrom(connectionMap, d + 1)

\* calculateNeededLines up to the call of cropLines.
StitchSegments(points, zoneId, tileMap, width) ==
    LET connections == FlattenFrom(CalculateConnections(points, zoneId, tileMap, width), 1)
    IN StitchLoop([segments |-> <<>>,
                   segmentMap |-> SeqOf([k \in 1..Len(points) |-> Undef]),
                   connectionCount |-> SeqOf([k \in 1..Len(points) |-> 0])],
                  connections, 1, Len(connections), points)

\* cropLines with the loop bound read once, before the loop: a remainder
\* that is pushed is not visited.  C10 tells it apart from cropLines.
CropLinesOnce(lines) ==
    SeqOf([k \in 1..Len(lines) |->
             IF Len(lines[k]) > MaxLineLength THEN SubSeq(lines[k], 1, MaxLineLength)
             ELSE lines[k]])
      \o SeqOf([k \in 1..Len(SelectSeq(lines, LAMBDA l : Len(l) > MaxLineLength)) |->
                  LET long == SelectSeq(lines, LAMBDA l : Len(l) > MaxLineLength)[k]
                  IN SubSeq(long, MaxLineLength + 1, Len(long))])

\* cropLines: the for loop from index i on; lines.length is read again at
\* every iteration, so a pushed remainder is visited too.
RECURSIVE CropLinesFrom(_, _)
CropLinesFrom(lines, i) ==
    IF ~(i < Len(lines)) THEN lines
    ELSE LET line == lines[i + 1]
         IN IF Len(line) > MaxLineLength
            THEN CropLinesFrom(Append([lines EXCEPT ![i + 1] = SubSeq(line, 1, MaxLineLength)],
                                      SubSeq(line, MaxLineLength + 1, Len(line))),
                               i + 1)
            ELSE CropLinesFrom(lines, i + 1)

CropLines(lines) == CropLinesFrom(lines, 0)

\* addSingles
AddSingles(border, connectionCount, lines) ==
    LET single == SelectSeq(SeqOf([k \in 1..Len(border) |-> k]),
                            LAMBDA k : connectionCount[k] = 0)
    IN lines \o SeqOf([k \in 1..Len(single) |-> <<border[single[k]]>>])

\* calculateNeededLines from the stitched state on.
FinishLines(points, st) ==
    SelectSeq(AddSingles(points, st.connectionCount, CropLines(st.segments)),
              LAMBDA segment : Len(segment) > 0)

CalculateNeededLines(points, zoneId, tileMap, width) ==
    FinishLines(points, StitchSegments(points, zoneId, tileMap, width))

\* The id of the 32x32 chunk holding a cell (chunkLines, checkChunk,
\* calculateCost).
ChunkOf(position, width) ==
    ((position \div width) \div ChunkSize) * CeilDiv(width, ChunkSize)
        + ((position % width) \div ChunkSize)

\* chunkLines: Array.prototype.sort is stable and compares the chunk ids of
\* the lines' first cells.
RECURSIVE SortByChunk(_, _, _)
SortByChunk(lines, chunks, width) ==
    IF chunks = {} THEN <<>>
    ELSE LET c == Min(chunks)
         IN SelectSeq(lines, LAMBDA l : ChunkOf(l.line[1], width) = c)
                \o SortByChunk(lines, chunks \ {c}, width)

ChunkLines(lines, width) ==
    SortByChunk(lines, {ChunkOf(lines[k].line[1], width) : k \in 1..Len(lines)}, width)

\* calculateCost: the for loop over lines lo..hi; acc = [cost, currentChunk].
RECURSIVE CostLoop(_, _, _, _, _, _)
CostLoop(acc, lines, lo, hi, typeLength, width) ==
    IF lo > hi THEN acc
    ELSE IF lo = hi
    THEN LET chunk == ChunkOf(lines[lo].line[1], width)
         IN [cost |-> acc.cost + (Len(lines[lo].line) - 1) * 2 + 20 + typeLength
                        + (chunk - acc.currentChunk),
             currentChunk |-> chunk]
    ELSE LET mid == (lo + hi) \div 2
             first == CostLoop(acc, lines, lo, mid, typeLength, width)
         IN IF first.cost < 0 THEN first
            ELSE CostLoop(first, lines, mid + 1, hi, typeLength, width)

CalculateCost(lines, typeLength, width) ==
    CostLoop([cost |-> 0, currentChunk |-> 0], lines, 1, Len(lines), typeLength, width).cost

\* The lines calculateLines pushes for one zone: {id: zone.id, line}.
ZoneLineData(zone, segments) ==
    SeqOf([k \in 1..Len(segments) |-> [id |-> zone.id, line |-> segments[k]]])

\* ------------------------------------------------------------- bit stream
\* n bits of value, most significant first (value taken modulo 2^n).
Bits(n, value) ==
    IF n <= 16 THEN SeqOf([k \in 1..n |-> (value \div Pow2(n - k)) % 2])
    ELSE SeqOf([k \in 1..(n - 16) |-> ((value \div U16) \div Pow2(n - 16 - k)) % 2])
            \o SeqOf([k \in 1..16 |-> ((value % U16) \div Pow2(16 - k)) % 2])

Bool(b) == IF b THEN <<1>> ELSE <<0>>

RECURSIVE BytesBits(_)
BytesBits(bytes) ==
    IF Len(bytes) = 0 THEN <<>> ELSE Bits(8, Head(bytes)) \o BytesBits(Tail(bytes))

\* writeString: the length in ceil(log2(maxChars + 1)) bits, then the bytes.
StringBits(maxChars, str) == Bits(CeilLog2(maxChars + 1), Len(str)) \o BytesBits(str)

\* value of a bit sequence, most significant first
RECURSIVE BitsValue(_)
BitsValue(bits) ==
    IF Len(bits) = 0 THEN 0
    ELSE 2 * BitsValue(SubSeq(bits, 1, Len(bits) - 1)) + bits[Len(bits)]

\* compress: the written bits as bytes, the last byte padded with zero bits.
Compress(bits) ==
    LET n == CeilDiv(Len(bits), 8)
    IN SeqOf([k \in 1..n |->
                BitsValue(SeqOf([j \in 1..8 |-> IF 8 * (k - 1) + j <= Len(bits)
                                               THEN bits[8 * (k - 1) + j] ELSE 0]))])

\* ------------------------------------------------------ MapEncoder, writing
RECURSIVE TypeMapEntries(_)
TypeMapEntries(typeMap) ==
    IF Len(typeMap) = 0 THEN <<>>
    ELSE LET t == Head(typeMap)
         IN Bits(3, 0) \o StringBits(32, t.name) \o StringBits(16, t.colorBase)
              \o Bits(4, t.colorVariant) \o Bool(t.conquerable) \o Bool(t.navigable)
              \o Bits(8, t.expansionTime) \o Bits(8, t.expansionCost)
              \o TypeMapEntries(Tail(typeMap))

\* writeTypeMap
WriteTypeMap(typeMap) == Bits(16, Len(typeMap)) \o TypeMapEntries(typeMap)

\* The 2-bit code writeLines writes for a step.
StepCode(diff, width) ==
    IF diff = 1 THEN 0 ELSE IF diff = -1 THEN 1 ELSE IF diff = width THEN 2 ELSE 3

\* checkChunk: the bits written and the chunk returned; the while loop never
\* ends when the chunk of the position is below currentChunk.
CheckChunk(currentChunk, position, width) ==
    LET chunk == ChunkOf(position, width)
    IN IF chunk < currentChunk
       THEN [hung |-> TRUE, bits |-> <<>>, currentChunk |-> currentChunk]
       ELSE [hung |-> FALSE,
             bits |-> SeqOf([k \in 1..(chunk - currentChunk) |-> 1]) \o <<0>>,
             currentChunk |-> chunk]

\* The step codes of a line, two bits each (the inner for loop of writeLines).
StepBits(cells, width) ==
    SeqOf([k \in 1..(2 * (Len(cells) - 1)) |->
             LET step == (k + 1) \div 2
                 code == StepCode(cells[step + 1] - cells[step], width)
             IN IF k % 2 = 1 THEN code \div 2 ELSE code % 2])

\* The bits of a line without the reserved bit that writeLines writes after
\* the call of checkChunk.  C9 tells it apart from writeLines.
LineBodyWithoutReserved(line, typeLength, width) ==
    Bits(8, Len(line.line) - 1)
      \o Bits(typeLength, line.id)
      \o Bits(10, ((line.line[1] % width) % ChunkSize)
                    + ((line.line[1] \div width) % ChunkSize) * ChunkSize)
      \o StepBits(line.line, width)

\* The bits writeLines writes for one line after the call of checkChunk.
LineBody(line, typeLength, width) ==
    Bits(1, 0)
      \o Bits(8, Len(line.line) - 1)
      \o Bits(typeLength, line.id)
      \o Bits(10, ((line.line[1] % width) % ChunkSize)
                    + ((line.line[1] \div width) % ChunkSize) * ChunkSize)
      \o StepBits(line.line, width)

\* The body of the for loop of writeLines; w = [bits, currentChunk, hung].
WriteLine(w, line, typeLength, width) ==
    LET cc == CheckChunk(w.currentChunk, line.line[1], width)
    IN IF w.hung \/ cc.hung THEN [w EXCEPT !.hung = TRUE]
       ELSE [bits |-> w.bits \o cc.bits \o LineBody(line, typeLength, width),
             currentChunk |-> cc.currentChunk, hung |-> FALSE]

RECURSIVE WriteLinesLoop(_, _, _, _, _, _)
WriteLinesLoop(w, lines, lo, hi, typeLength, width) ==
    IF lo > hi THEN w
    ELSE IF lo = hi THEN WriteLine(w, lines[lo], typeLength, width)
    ELSE LET mid == (lo + hi) \div 2
             first == WriteLinesLoop(w, lines, lo, mid, typeLength, width)
         IN IF first.hung THEN first
            ELSE WriteLinesLoop(first, lines, mid + 1, hi, typeLength, width)

\* writeLines
WriteLines(lines, typeLength, width) ==
    WriteLinesLoop([bits |-> Bits(32, Len(lines)), currentChunk |-> 0, hung |-> FALSE],
                   lines, 1, Len(lines), typeLength, width)

\* encodeMap and writeCompressed: everything written before the type map.
HeaderBits(map, direction) ==
    Bits(4, CURRENT_VERSION) \o Bits(16, map.width) \o Bits(16, map.height)
      \o Bits(8, 0) \o Bool(direction) \o Bits(1, 0)

\* ------------------------------------------------------------ StreamReader
\* The bit at a 0-based position; positions after the last byte read as 0 and
\* make the call fail with Truncated once the whole stream has been parsed
\* (the read position only grows, see DecodeMap).
BitAt(bits, k) == IF k >= 0 /\ k < Len(bits) THEN bits[k + 1] ELSE 0

\* readBits(n) at position pos
ReadBits(bits, pos, n) == BitsValue(SeqOf([k \in 1..n |-> BitAt(bits, pos + k - 1)]))

\* readString(maxChars) at position pos: the bytes and the position after it.
ReadString(bits, pos, maxChars) ==
    LET lengthBits == CeilLog2(maxChars + 1)
        length == ReadBits(bits, pos, lengthBits)
    IN [invalid |-> length > maxChars,
        str |-> SeqOf([k \in 1..length |-> ReadBits(bits, pos + lengthBits + 8 * (k - 1), 8)]),
        pos |-> pos + lengthBits + 8 * length]

\* -------------------------------------------------------------- MapDecoder
\* readTypeMap: the loop for the entries still to read; r = [types, pos, invalid].
RECURSIVE ReadTypeEntries(_, _, _)
ReadTypeEntries(bits, r, remaining) ==
    IF remaining = 0 \/ r.invalid THEN r
    ELSE LET name == ReadString(bits, r.pos + 3, 32)
             colorBase == ReadString(bits, name.pos, 16)
             p == colorBase.pos
         IN ReadTypeEntries(bits,
              [types |-> Append(r.types,
                  [name |-> name.str, colorBase |-> colorBase.str,
                   colorVariant |-> ReadBits(bits, p, 4),
                   conquerable |-> ReadBits(bits, p + 4, 1) = 1,
                   navigable |-> ReadBits(bits, p + 5, 1) = 1,
                   expansionTime |-> ReadBits(bits, p + 6, 8),
                   expansionCost |-> ReadBits(bits, p + 14, 8)]),
               pos |-> p + 22,
               invalid |-> name.invalid \/ colorBase.invalid],
              remaining - 1)

ReadTypeMap(bits, pos) ==
    ReadTypeEntries(bits, [types |-> <<>>, pos |-> pos + 16, invalid |-> FALSE],
                    ReadBits(bits, pos, 16))

\* The cell a step code moves to (putLines).
StepTo(position, diff, width) ==
    position + (IF diff = 0 THEN 1 ELSE IF diff = 1 THEN -1
                ELSE IF diff = 2 THEN width ELSE -width)

\* The inner for loop of putLines for steps lo..hi, the first step code at
\* bit position pos: acc = [position, cells], cells being the cells written.
RECURSIVE StepLoop(_, _, _, _, _, _)
StepLoop(acc, bits, pos, lo, hi, width) ==
    IF lo > hi THEN acc
    ELSE IF lo = hi
    THEN LET next == StepTo(acc.position, ReadBits(bits, pos + 2 * (lo - 1), 2), width)
         IN [position |-> next, cells |-> Append(acc.cells, next)]
    ELSE LET mid == (lo + hi) \div 2
             first == StepLoop(acc, bits, pos, lo, mid, width)
         IN IF Len(first.cells) < 0 THEN first
            ELSE StepLoop(first, bits, pos, mid + 1, hi, width)

\* The position putLines computes from the 10-bit field and the chunk.
AbsolutePosition(position, currentChunk, width) ==
    (position % ChunkSize) + (currentChunk % CeilDiv(width, ChunkSize)) * ChunkSize
        + (position \div ChunkSize) * width
        + (currentChunk \div CeilDiv(width, ChunkSize)) * ChunkSize * width

\* result[position] = type; valueMap[position] = true for the cells of one
\* line; valueMap is the set of indices set to true, and a store outside the
\* Uint16Array result is dropped.
PlaceCells(result, cells, type) ==
    LET touched == {cells[k] : k \in 1..Len(cells)}
    IN SeqOf([k \in 1..Len(result) |-> IF (k - 1) \in touched THEN type % U16 ELSE result[k]])

\* The body of the outer for loop of putLines.
\* d = [pos, currentChunk, result, valueMap]
PutLine(d, bits, width, typeLength) ==
    LET zero == Min({k \in d.pos..Len(bits) : BitAt(bits, k) = 0})
        currentChunk == d.currentChunk + (zero - d.pos)
        p1 == zero + 2
        length == ReadBits(bits, p1, 8) + 1
        type == ReadBits(bits, p1 + 8, typeLength)
        p2 == p1 + 8 + typeLength
        start == AbsolutePosition(ReadBits(bits, p2, 10), currentChunk, width)
        cells == StepLoop([position |-> start, cells |-> <<start>>],
                          bits, p2 + 10, 1, length - 1, width).cells
    IN [pos |-> p2 + 10 + 2 * (length - 1),
        currentChunk |-> currentChunk,
        result |-> PlaceCells(d.result, cells, type),
        valueMap |-> d.valueMap \cup {cells[k] : k \in 1..Len(cells)}]

RECURSIVE PutLinesLoop(_, _, _, _, _, _)
PutLinesLoop(d, bits, lo, hi, width, typeLength) ==
    IF lo > hi \/ d.pos > Len(bits) THEN d
    ELSE IF lo = hi THEN PutLine(d, bits, width, typeLength)
    ELSE LET mid == (lo + hi) \div 2
             first == PutLinesLoop(d, bits, lo, mid, width, typeLength)
         IN IF first.pos > Len(bits) THEN first
            ELSE PutLinesLoop(first, bits, mid + 1, hi, width, typeLength)

\* putLines, reading from bit position pos on.
PutLines(bits, pos, result, width, typeLength) ==
    PutLinesLoop([pos |-> pos + 32, currentChunk |-> 0, result |-> result, valueMap |-> {}],
                 bits, 1, ReadBits(bits, pos, 32), width, typeLength)

\* fillLinesLeftToRight: the for loop over cells lo..hi; f = [current, result].
RECURSIVE FillLeftToRightLoop(_, _, _, _)
FillLeftToRightLoop(f, valueMap, lo, hi) ==
    IF lo > hi THEN f
    ELSE IF lo = hi
    THEN LET current == IF lo \in valueMap THEN f.result[lo + 1] ELSE f.current
         IN [current |-> current, result |-> [f.result EXCEPT ![lo + 1] = current]]
    ELSE LET mid == (lo + hi) \div 2
             first == FillLeftToRightLoop(f, valueMap, lo, mid)
         IN IF first.current < 0 THEN first
            ELSE FillLeftToRightLoop(first, valueMap, mid + 1, hi)

FillLinesLeftToRight(result, valueMap) ==
    FillLeftToRightLoop([current |-> 0, result |-> result], valueMap, 0, Len(result) - 1).result

\* fillLinesTopToBottom: up to n iterations of the for loop; f = [i, current, result].
RECURSIVE FillTopToBottomRun(_, _, _, _)
FillTopToBottomRun(f, n, valueMap, width) ==
    IF ~(f.i < Len(f.result) - 1) \/ n <= 0 THEN f
    ELSE IF n = 1
    THEN LET current == IF f.i \in valueMap THEN f.result[f.i + 1] ELSE f.current
         IN [i |-> IF f.i >= Len(f.result) - width THEN (f.i + 1) % width ELSE f.i + width,
             current |-> current,
             result |-> [f.result EXCEPT ![f.i + 1] = current]]
    ELSE LET half == FillTopToBottomRun(f, n \div 2, valueMap, width)
         IN IF ~(half.i < Len(half.result) - 1) THEN half
            ELSE FillTopToBottomRun(half, n - (n \div 2), valueMap, width)

\* The loop visits a cell at most once, so Len(result) iterations end it.
FillLinesTopToBottom(result, valueMap, width) ==
    FillTopToBottomRun([i |-> 0, current |-> 0, result |-> result],
                       Len(result), valueMap, width).result

\* readCompressed: the sweep chosen by the direction bit.
FillLines(direction, result, valueMap, width) ==
    IF direction THEN FillLinesTopToBottom(result, valueMap, width)
    ELSE FillLinesLeftToRight(result, valueMap)

\* readCompressed, reading from bit position pos on.
ReadCompressed(bits, pos, width, height) ==
    LET direction == ReadBits(bits, pos + 8, 1) = 1
        tm == ReadTypeMap(bits, pos + 10)
        typeLength == CeilLog2(Len(tm.types))
        put == PutLines(bits, tm.pos, SeqOf([k \in 1..(width * height) |-> 0]),
                        width, typeLength)
    IN [invalid |-> tm.invalid,
        pos |-> put.pos,
        typeLength |-> typeLength,
        map |-> [width |-> width, height |-> height,
                 tiles |-> FillLines(direction, put.result, put.valueMap, width),
                 types |-> tm.types]]

\* decodeMap on a byte array: the error thrown or the map returned.
DecodeMap(bytes) ==
    LET bits == BytesBits(bytes)
        version == ReadBits(bits, 0, 4)
    IN IF Len(bits) < 4 THEN [error |-> "Truncated", typeLength |-> Undef]
       ELSE IF version > CURRENT_VERSION \/ version < MINIMUM_VERSION
       THEN [error |-> "UnsupportedVersion", typeLength |-> Undef]
       ELSE LET rc == ReadCompressed(bits, 36, ReadBits(bits, 4, 16), ReadBits(bits, 20, 16))
            IN IF rc.invalid THEN [error |-> "InvalidString", typeLength |-> Undef]
               ELSE IF rc.pos + 8 > Len(bits)
               THEN [error |-> "Truncated", typeLength |-> rc.typeLength]
               ELSE [error |-> "none", typeLength |-> rc.typeLength, map |-> rc.map]

\* ------------------------------------------------------------------ inputs
TileTypeOf(k) ==
    [name |-> <<84, 48 + k>>, colorBase |-> <<97 + k>>, colorVariant |-> k % 16,
     conquerable |-> (k % 2 = 0), navigable |-> (k % 2 = 1),
     expansionTime |-> 50 + k, expansionCost |-> 50]

Palette(n) == [k \in 1..n |-> TileTypeOf(k - 1)]

\* data       the RawMapData being encoded (the caller's map, then the decoded one)
\* orig       the caller's map
\* round      1 while the caller's map is encoded and decoded, 2 for the re-encoding
\* pc         the position in encodeMap / decodeMap
\* zones      the TileZone list of buildZones (ids remapped by validateTileTypeUsage)
\* zoneMap    the shared tileMap of the zones
\* typeLength the encoder's typeLength
\* zoneIdx    the number of zones calculateLines has handled
\* stitched   the segments of the zone handled last, before cropLines
\* needed     the lines calculateNeededLines returned for that zone
\* linesL2R, linesT2B   the two candidates of calculateLines
\* lines, direction     the candidate chosen and the direction bit written
\* written    the bits in the writer when compress is called
\* out        the bytes encodeMap returned
\* firstOut   the bytes of round 1
\* error      the error encodeMap threw
\* decoded    what decodeMap returned or threw
VARIABLES data, orig, round, pc, zones, zoneMap, typeLength, zoneIdx, stitched,
          needed, linesL2R, linesT2B, lines, direction, written, out, firstOut, error, decoded

vars == <<data, orig, round, pc, zones, zoneMap, typeLength, zoneIdx, stitched,
          needed, linesL2R, linesT2B, lines, direction, written, out, firstOut, error, decoded>>

\* The tiles arrays handed in with a grid of width*height cells holding t:
\* t itself, t without its last cell, and t with two more cells.
TilesFor(t) ==
    {t, t \o <<t[1], t[1]>>} \cup (IF Len(t) > 1 THEN {SubSeq(t, 1, Len(t) - 1)} ELSE {})

\* Every map of at most MaxCells cells with these tiles arrays.
SmallMaps ==
    UNION {UNION {UNION {
        {[width |-> w, height |-> h, tiles |-> tiles, types |-> Palette(nt)] :
            tiles \in TilesFor(t), nt \in 1..MaxTypes}
        : t \in [1..(w * h) -> 0..MaxTile]}
        : h \in {hh \in 1..MaxCells : w * hh <= MaxCells}}
        : w \in 1..MaxCells}

\* Every map of three rows of three cells that hold tile 0 or tile 1.
GridMaps ==
    {[width |-> 3, height |-> 3, tiles |-> t, types |-> Palette(2)] :
        t \in [1..9 -> {0, 1}]}

\* One column of TallHeight cells: the first k hold tile 0, the rest tile 1.
TallMaps ==
    {[width |-> 1, height |-> TallHeight,
      tiles |-> SeqOf([c \in 1..TallHeight |-> IF c <= k THEN 0 ELSE 1]),
      types |-> Palette(2)] : k \in {TallHeight - 1, TallHeight}}

\* The scenarios of the specification that the enumeration above leaves out
\* (3x3 uniform with an unused type, 8x1 striped), maps whose zones make the
\* stitching join two segments, palettes of three and five used types, and a
\* map of two rows whose last column lies in a second chunk.
ScenarioMaps ==
    {[width |-> 3, height |-> 3, tiles |-> <<0, 0, 0, 0, 0, 0, 0, 0, 0>>, types |-> Palette(2)],
     [width |-> 8, height |-> 1, tiles |-> <<0, 0, 0, 0, 1, 1, 1, 1>>, types |-> Palette(2)],
     [width |-> 4, height |-> 2, tiles |-> <<0, 0, 1, 1, 1, 0, 0, 0>>, types |-> Palette(2)],
     [width |-> 2, height |-> 4, tiles |-> <<0, 1, 0, 0, 1, 0, 1, 0>>, types |-> Palette(2)],
     [width |-> 5, height |-> 2, tiles |-> <<0, 0, 1, 0, 0, 0, 0, 0, 0, 0>>, types |-> Palette(2)],
     [width |-> 3, height |-> 1, tiles |-> <<0, 1, 2>>, types |-> Palette(3)],
     [width |-> 5, height |-> 1, tiles |-> <<4, 3, 2, 1, 0>>, types |-> Palette(5)],
     [width |-> 34, height |-> 2,
      tiles |-> SeqOf([c \in 1..68 |-> IF c % 34 = 0 THEN 1 ELSE 0]), types |-> Palette(2)]}

\* Two columns of WideHeight cells in a checkerboard of tile 0 and tile 1:
\* no two neighbours hold one tile type.
WideMaps ==
    {[width |-> 2, height |-> WideHeight,
      tiles |-> SeqOf([c \in 1..(2 * WideHeight) |-> (((c - 1) % 2) + ((c - 1) \div 2)) % 2]),
      types |-> Palette(2)]}

\* A valid map whose zone number 65536 has two cells: a checkerboard of 65534
\* one-cell zones in rows 0..32766, row 32767 = <<1, 0>> and row 32768 =
\* <<1, 0>>, so that zone 65535 is the column-0 pair and zone 65536 the
\* column-1 pair.
LateZoneMaps ==
    {[width |-> 2, height |-> (U16 \div 2) + 1,
      tiles |-> SeqOf([c \in 1..(U16 + 2) |->
                         IF c = U16 + 1 THEN 1
                         ELSE IF c = U16 + 2 THEN 0
                         ELSE (((c - 1) % 2) + ((c - 1) \div 2)) % 2]),
      types |-> Palette(2)]}

NoLines == [left |-> <<>>, top |-> <<>>]

\* The encoder's variables at the start of a call of encodeMap.
EncoderStart ==
    /\ zones' = <<>>
    /\ zoneMap' = <<>>
    /\ typeLength' = 0
    /\ zoneIdx' = 0
    /\ stitched' = NoLines
    /\ needed' = NoLines
    /\ linesL2R' = <<>>
    /\ linesT2B' = <<>>
    /\ lines' = <<>>
    /\ direction' = FALSE
    /\ written' = <<>>
    /\ out' = <<>>

\* encodeMap is called on one of the maps.
InitOn(maps) ==
    /\ data \in maps
    /\ orig = data
    /\ round = 1
    /\ pc = "buildZones"
    /\ zones = <<>>
    /\ zoneMap = <<>>
    /\ typeLength = 0
    /\ zoneIdx = 0
    /\ stitched = NoLines
    /\ needed = NoLines
    /\ linesL2R = <<>>
    /\ linesT2B = <<>>
    /\ lines = <<>>
    /\ direction = FALSE
    /\ written = <<>>
    /\ out = <<>>
    /\ firstOut = <<>>
    /\ error = "none"
    /\ decoded = [error |-> "none"]

Init == InitOn(SmallMaps \cup GridMaps \cup ScenarioMaps \cup TallMaps)

\* buildZones alone, also on the map of 2 * WideHeight zones.
InitZones == InitOn(SmallMaps \cup GridMaps \cup ScenarioMaps \cup WideMaps)

\* writeCompressed: ZoneCalculator.buildZones(data)
DoBuildZones ==
    /\ pc = "buildZones"
    /\ LET bz == BuildZones(data)
       IN /\ zones' = bz.result
          /\ zoneMap' = bz.zoneMap
          /\ pc' = IF bz.hung THEN "hung" ELSE "validate"
    /\ UNCHANGED <<data, orig, round, typeLength, zoneIdx, stitched, needed, linesL2R,
                   linesT2B, lines, direction, written, out, firstOut, error, decoded>>

\* writeCompressed: validateTileTypeUsage and typeLength
DoValidate ==
    /\ pc = "validate"
    /\ LET v == ValidateTileTypeUsage(data.types, zones)
       IN /\ zones' = v.zones
          /\ error' = v.error
          /\ typeLength' = IF v.error = "none" THEN CeilLog2(Len(v.usedTypes)) ELSE typeLength
          /\ pc' = IF v.error = "none" THEN "calculateLines" ELSE "failed"
    /\ UNCHANGED <<data, orig, round, zoneMap, zoneIdx, stitched, needed, linesL2R,
                   linesT2B, lines, direction, written, out, firstOut, decoded>>

\* calculateLines: one iteration of the for loop over the zones
DoZoneLines ==
    /\ pc = "calculateLines"
    /\ zoneIdx < Len(zones)
    /\ LET zone == zones[zoneIdx + 1]
           left == StitchSegments(zone.leftBorder, zoneIdx + 1, zoneMap, data.width)
           top == StitchSegments(zone.topBorder, zoneIdx + 1, zoneMap, data.width)
           neededLeft == FinishLines(zone.leftBorder, left)
           neededTop == FinishLines(zone.topBorder, top)
       IN /\ stitched' = [left |-> left.segments, top |-> top.segments]
          /\ needed' = [left |-> neededLeft, top |-> neededTop]
          /\ linesL2R' = linesL2R \o ZoneLineData(zone, neededLeft)
          /\ linesT2B' = linesT2B \o ZoneLineData(zone, neededTop)
    /\ zoneIdx' = zoneIdx + 1
    /\ UNCHANGED <<data, orig, round, pc, zones, zoneMap, typeLength, lines, direction,
                   written, out, firstOut, error, decoded>>

\* calculateLines: chunkLines, calculateCost and the choice of the candidate
DoChooseLines ==
    /\ pc = "calculateLines"
    /\ zoneIdx = Len(zones)
    /\ LET l2r == ChunkLines(linesL2R, data.width)
           t2b == ChunkLines(linesT2B, data.width)
           costL2R == CalculateCost(l2r, typeLength, data.width)
           costT2B == CalculateCost(t2b, typeLength, data.width)
       IN /\ linesL2R' = l2r
          /\ linesT2B' = t2b
          /\ direction' = (costL2R > costT2B)
          /\ lines' = IF costL2R > costT2B THEN t2b ELSE l2r
    /\ pc' = "writeLines"
    /\ UNCHANGED <<data, orig, round, zones, zoneMap, typeLength, zoneIdx, stitched, needed,
                   written, out, firstOut, error, decoded>>

\* The bits of a whole call of encodeMap, given what writeLines wrote.
EncodedBits(map, dir, lineBits) ==
    HeaderBits(map, dir) \o WriteTypeMap(map.types) \o lineBits \o Bits(8, 0)

\* writeCompressed: writeTypeMap and writeLines; encodeMap: the reserved byte
\* and compress
DoWrite ==
    /\ pc = "writeLines"
    /\ LET w == WriteLines(lines, typeLength, data.width)
       IN /\ written' = IF w.hung THEN written ELSE EncodedBits(data, direction, w.bits)
          /\ out' = IF w.hung THEN out ELSE Compress(EncodedBits(data, direction, w.bits))
          /\ pc' = IF w.hung THEN "hung" ELSE "encoded"
    /\ UNCHANGED <<data, orig, round, zones, zoneMap, typeLength, zoneIdx, stitched, needed,
                   linesL2R, linesT2B, lines, direction, firstOut, error, decoded>>

\* decodeMap on the bytes encodeMap returned for a map whose tiles array has
\* width*height cells
DoDecode ==
    /\ pc = "encoded"
    /\ round = 1
    /\ Len(data.tiles) = data.width * data.height
    /\ decoded' = DecodeMap(out)
    /\ pc' = "decoded"
    /\ UNCHANGED <<data, orig, round, zones, zoneMap, typeLength, zoneIdx, stitched, needed,
                   linesL2R, linesT2B, lines, direction, written, out, firstOut, error>>

\* encodeMap is called again, on the decoded map
DoReencode ==
    /\ pc = "decoded"
    /\ decoded.error = "none"
    /\ data' = decoded.map
    /\ round' = 2
    /\ firstOut' = out
    /\ pc' = "buildZones"
    /\ EncoderStart
    /\ UNCHANGED <<orig, error, decoded>>

Next ==
    \/ DoBuildZones
    \/ DoValidate
    \/ DoZoneLines
    \/ DoChooseLines
    \/ DoWrite
    \/ DoDecode
    \/ DoReencode

Spec == Init /\ [][Next]_vars

SpecZones == InitZones /\ [][DoBuildZones]_vars

\* encodeMap on the maps of Init and on the map whose zone 65536 has two cells.
InitLateZone ==
    InitOn(SmallMaps \cup GridMaps \cup ScenarioMaps \cup TallMaps \cup LateZoneMaps)

SpecLateZone == InitLateZone /\ [][Next]_vars

\* ------------------------------------------------------------------ claims
\* |tiles| = width * height
ValidShape(map) == Len(map.tiles) = map.width * map.height

\* a valid map: |tiles| = width * height and every tile value < |types|
ValidMap(map) ==
    ValidShape(map) /\ \A k \in 1..Len(map.tiles) : map.tiles[k] < Len(map.types)

NumCells == data.width * data.height

\* The cells 4-adjacent to c in the grid of map that hold the tile type of c.
SameTypeNeighbours(map, c) ==
    {n \in ({c - map.width, c + map.width}
              \cup (IF c % map.width # 0 THEN {c - 1} ELSE {})
              \cup (IF c % map.width # map.width - 1 THEN {c + 1} ELSE {}))
       : n >= 0 /\ n < Len(map.tiles) /\ map.tiles[n + 1] = map.tiles[c + 1]}

\* The cells joined to the frontier by paths of 4-adjacent cells of one tile
\* type, in at most n rounds; r = [seen, frontier].
RECURSIVE ReachRun(_, _, _)
ReachRun(map, r, n) ==
    IF r.frontier = {} \/ n <= 0 THEN r
    ELSE IF n = 1
    THEN LET next == (UNION {SameTypeNeighbours(map, c) : c \in r.frontier}) \ r.seen
         IN [seen |-> r.seen \cup next, frontier |-> next]
    ELSE LET half == ReachRun(map, r, n \div 2)
         IN IF half.frontier = {} THEN half ELSE ReachRun(map, half, n - (n \div 2))

Component(map, c) == ReachRun(map, [seen |-> {c}, frontier |-> {c}], Len(map.tiles)).seen

\* The zones zs and the zone ids zm of the cells are the zone partition of map.
ZonePartition(map, zs, zm) ==
    LET cells == 0..(Len(map.tiles) - 1)
        ZoneCells(z) == {c \in cells : zm[c + 1] = z}
    IN /\ \A c \in cells : zm[c + 1] \in 1..Len(zs)
       /\ \A z \in 1..Len(zs) :
             /\ ZoneCells(z) # {}
             /\ Component(map, Min(ZoneCells(z))) = ZoneCells(z)
       /\ \A z \in 1..(Len(zs) - 1) : Min(ZoneCells(z)) < Min(ZoneCells(z + 1))

\* C7 (zone partition), as claimed: buildZones on a map with
\* |tiles| = width*height (the map encodeMap is called on) returns, gives
\* every cell one zone id in 1..|zones|, makes the cells of a zone exactly the
\* cells joined to its first cell by a path of 4-adjacent cells of one tile
\* type (no step across a row end), and numbers the zones in the order in
\* which a row-major scan meets their first cells.
C7_ZonePartition ==
    (pc = "buildZones" /\ ValidShape(data)) =>
        LET bz == BuildZones(data)
        IN ~bz.hung /\ ZonePartition(data, bz.result, bz.zoneMap)

\* C5 (unknown tile type): for a map with |tiles| = width*height, encodeMap
\* throws UnknownTileType, and returns no bytes, exactly when some cell holds
\* a tile value above |types| - 1.
C5_UnknownTileType ==
    (ValidShape(data) /\ pc \notin {"buildZones", "validate"}) =>
        /\ (\E k \in 1..Len(data.tiles) : data.tiles[k] > Len(data.types) - 1)
              <=> (pc = "failed" /\ error = "UnknownTileType")
        /\ pc = "failed" => out = <<>>

\* C5 witness: encodeMap has thrown UnknownTileType for a map that also holds
\* a cell with a known tile type.
C5_Witness ==
    /\ ValidShape(data) /\ pc = "failed" /\ error = "UnknownTileType"
    /\ \E k \in 1..Len(data.tiles) : data.tiles[k] < Len(data.types)
    /\ \E k \in 1..Len(data.tiles) : data.tiles[k] = Len(data.types)

\* C4 (invalid input), as claimed: for a map whose tiles array does not have
\* width*height cells encodeMap neither returns bytes nor loops for ever, it
\* throws InvalidInput.
C4_InvalidInput ==
    ~ValidShape(data) =>
        /\ pc \notin {"encoded", "hung"}
        /\ pc = "failed" => error = "InvalidInput"
        /\ out = <<>>

\* Every line of a candidate of the zone with id z is a valid line.
ValidLines(candidate, z) ==
    \A k \in 1..Len(candidate) :
        LET line == candidate[k]
        IN /\ Len(line) >= 1 /\ Len(line) <= MaxLineLength
           /\ \A j \in 1..Len(line) : Get(zoneMap, line[j]) = z
           /\ \A j \in 1..(Len(line) - 1) :
                 line[j + 1] - line[j] \in {1, -1, data.width, -data.width}

Pieces(segment) ==
    {SubSeq(segment, MaxLineLength * j + 1,
            IF MaxLineLength * (j + 1) < Len(segment)
            THEN MaxLineLength * (j + 1) ELSE Len(segment))
       : j \in 0..(CeilDiv(Len(segment), MaxLineLength) - 1)}

Elements(seq) == {seq[k] : k \in 1..Len(seq)}

\* Each segment of more than 256 cells appears in the result as its first
\* 256 cells and as one remainder.
CroppedOnce(segments, result) ==
    \A k \in 1..Len(segments) :
        Len(segments[k]) > MaxLineLength =>
            /\ SubSeq(segments[k], 1, MaxLineLength) \in Elements(result)
            /\ SubSeq(segments[k], MaxLineLength + 1, Len(segments[k])) \in Elements(result)

\* Each segment appears in the result as its pieces, and the result holds
\* nothing but pieces and lines of one cell.
CroppedRepeatedly(segments, result) ==
    /\ \A k \in 1..Len(segments) : Pieces(segments[k]) \subseteq Elements(result)
    /\ \A line \in Elements(result) :
          /\ Len(line) <= MaxLineLength
          /\ Len(line) = 1 \/ \E k \in 1..Len(segments) : line \in Pieces(segments[k])

\* C10 (cropping), as claimed: a stitched segment of more than 256 cells is
\* split once, into its first 256 cells and one remainder that stays in the
\* result whole, also when it has more than 256 cells.
C10_SinglePassCropping ==
    (pc = "calculateLines" /\ zoneIdx >= 1) =>
        CroppedOnce(stitched.left, needed.left) /\ CroppedOnce(stitched.top, needed.top)

\* C10 as amended: cropLines visits the remainders it pushes, so a stitched
\* segment of n cells is cut into ceil(n / 256) consecutive pieces of at most
\* 256 cells; the lines returned for a zone are these pieces and the
\* one-cell lines of addSingles, and none has more than 256 cells.
C10_RepeatedCropping ==
    (pc = "calculateLines" /\ zoneIdx >= 1) =>
        CroppedRepeatedly(stitched.left, needed.left)
            /\ CroppedRepeatedly(stitched.top, needed.top)

\* C10 witness: a stitched segment of more than 512 cells has been cropped.
C10_Witness ==
    /\ pc = "calculateLines" /\ zoneIdx >= 1
    /\ \E k \in 1..Len(stitched.left) : Len(stitched.left[k]) > 2 * MaxLineLength

\* C1 (round trip), as claimed: for every valid map m encodeMap returns
\* bytes, and decodeMap of these bytes returns a map with the width, the
\* height, the tiles and the types of m.
C1_RoundTrip ==
    (ValidMap(orig) /\ round = 1) =>
        /\ pc \notin {"failed", "hung"}
        /\ pc = "decoded" =>
              /\ decoded.error = "none"
              /\ decoded.map.width = orig.width
              /\ decoded.map.height = orig.height
              /\ decoded.map.tiles = orig.tiles
              /\ decoded.map.types = orig.types

\* C2 (idempotence of re-encode), as claimed: for every valid map m,
\* decodeMap(encodeMap(m)) returns a map, and encodeMap of that map returns
\* the bytes of encodeMap(m).
C2_ReencodeIdempotent ==
    ValidMap(orig) =>
        /\ pc = "decoded" => decoded.error = "none"
        /\ (round = 2 /\ pc \in {"encoded", "failed", "hung"}) =>
              (pc = "encoded" /\ out = firstOut)

\* The cells of the lines the encoder chose: the anchors of the decoder.
Anchors == UNION {Elements(lines[k].line) : k \in 1..Len(lines)}

\* The grid after the decoder has placed lines k.. of the chosen candidate.
RECURSIVE PlaceFrom(_, _)
PlaceFrom(result, k) ==
    IF k > Len(lines) THEN result
    ELSE PlaceFrom(PlaceCells(result, lines[k].line, lines[k].id), k + 1)

\* The grid after the sweep in the direction of the direction bit.
Swept ==
    FillLines(direction, PlaceFrom(SeqOf([c \in 1..NumCells |-> 0]), 1), Anchors, data.width)

\* C3 (border coverage), as claimed: for every valid map, placing the lines
\* of the chosen candidate and sweeping in the chosen direction gives every
\* cell, the last cell of the grid included, the type id emitted for its zone.
C3_BorderCoverage ==
    (pc = "writeLines" /\ ValidMap(data)) =>
        \A c \in 0..(NumCells - 1) : Swept[c + 1] = zones[zoneMap[c + 1]].id

\* The palette entries that some cell of the map uses.
UsedEntries(map) == {map.tiles[k] : k \in 1..Len(map.tiles)}

\* C8 (type id width), as claimed: for every valid map the encoder writes,
\* and the decoder reads, ceil(log2(number of used palette entries)) bits
\* for the typeId of a line.
C8_TypeWidthAgreement ==
    (pc = "decoded" /\ ValidMap(orig)) =>
        /\ typeLength = CeilLog2(Cardinality(UsedEntries(orig)))
        /\ decoded.typeLength = typeLength

\* The bits written before the line count: version, width, height, the
\* reserved byte, the direction bit, a reserved bit and the type map.
LinesOffset == 4 + 16 + 16 + 8 + 1 + 1 + Len(WriteTypeMap(data.types))

\* The value of the n bits of the written stream from bit offset on.
Field(offset, n) == BitsValue(SubSeq(written, offset + 1, offset + n))

PositionInChunk(cell) ==
    ((cell % data.width) % ChunkSize) + ((cell \div data.width) % ChunkSize) * ChunkSize

\* The records of lines i.. lie in the written stream from bit offset on,
\* each with `reserved` bits between the terminating zero of the chunk
\* prefix and lengthMinus1, and are followed by the reserved byte only.
RECURSIVE RecordsLaidOut(_, _, _, _)
RecordsLaidOut(i, offset, currentChunk, reserved) ==
    IF i > Len(lines) THEN Len(written) = offset + 8
    ELSE LET line == lines[i].line
             d == ChunkOf(line[1], data.width) - currentChunk
             lengthAt == offset + d + 1 + reserved
             size == d + 1 + reserved + 8 + typeLength + 10 + 2 * (Len(line) - 1)
         IN /\ d >= 0
            /\ offset + size <= Len(written)
            /\ \A k \in 1..d : written[offset + k] = 1
            /\ written[offset + d + 1] = 0
            /\ \A k \in 1..reserved : written[offset + d + 1 + k] = 0
            /\ Field(lengthAt, 8) = Len(line) - 1
            /\ Field(lengthAt + 8, typeLength) = lines[i].id
            /\ Field(lengthAt + 8 + typeLength, 10) = PositionInChunk(line[1])
            /\ \A j \in 1..(Len(line) - 1) :
                  Field(lengthAt + 18 + typeLength + 2 * (j - 1), 2)
                      = StepCode(line[j + 1] - line[j], data.width)
            /\ RecordsLaidOut(i + 1, offset + size, currentChunk + d, reserved)

\* C9 (line record layout), as claimed: for a valid map lengthMinus1 follows the terminating
\* zero of the chunk prefix at once, and a record of L cells that advances
\* the chunk by d takes d + 1 + 8 + typeBits + 10 + 2*(L-1) bits.
C9_RecordLayoutClaimed ==
    (pc = "encoded" /\ ValidMap(data)) =>
        /\ Field(LinesOffset, 32) = Len(lines)
        /\ RecordsLaidOut(1, LinesOffset + 32, 0, 0)

\* C9 as amended: for a valid map a record is the chunk prefix (d one-bits and a terminating
\* zero-bit), one reserved zero-bit, the 8-bit lengthMinus1, typeBits bits of
\* typeId, the 10-bit positionInChunk and 2 bits per step, and nothing else:
\* d + 1 + 1 + 8 + typeBits + 10 + 2*(L-1) bits.
C9_RecordLayout ==
    (pc = "encoded" /\ ValidMap(data)) =>
        /\ Field(LinesOffset, 32) = Len(lines)
        /\ RecordsLaidOut(1, LinesOffset + 32, 0, 1)

\* C9 witness: a stream has been written that holds a record which advances
\* the chunk, has a typeId of one bit or more and has more than one cell.
C9_Witness ==
    /\ pc = "encoded" /\ ValidMap(data)
    /\ typeLength > 0
    /\ \E i \in 1..Len(lines) :
          /\ Len(lines[i].line) > 1
          /\ ChunkOf(lines[i].line[1], data.width) > 0

\* ------------------------------------------------------------------ C11
\* Two cells that are 4-adjacent in the grid: one row apart in the same
\* column, or one column apart in the same row.
GridAdjacent(a, b, width) ==
    \/ b = a + width
    \/ b = a - width
    \/ b = a + 1 /\ a % width # width - 1
    \/ b = a - 1 /\ a % width # 0

\* The cells of a path calculatePaths returns from p: p, the stored
\* intermediate cells and the border point reached.
PathCells(p, entry) == <<p>> \o entry.path \o <<entry.point>>

\* The paths calculatePaths returns for the border points of a border list of
\* the zone calculateLines handled last, as cell sequences from p to q # p.
ReturnedPaths(border) ==
    LET pointSet == {border[k] : k \in 1..Len(border)}
    IN UNION {LET paths == CalculatePaths(border[i], pointSet, zoneIdx,
                                          zoneMap, data.width)
              IN {PathCells(border[i], paths[k]) :
                    k \in {j \in 1..Len(paths) : paths[j].point # border[i]}}
              : i \in 1..Len(border)}

\* The paths of both border lists of the zone calculateLines handled last.
ZonePaths ==
    ReturnedPaths(zones[zoneIdx].leftBorder)
        \cup ReturnedPaths(zones[zoneIdx].topBorder)

\* C11 (first two parts): every path calculatePaths returns between two
\* border points of a zone of a valid map stays on cells of that zone and has
\* at most 8 steps.
C11_PathsInZoneAndBounded ==
    (pc = "calculateLines" /\ zoneIdx >= 1 /\ ValidMap(data)) =>
        \A cells \in ZonePaths :
            /\ Len(cells) - 1 <= MaxPathLength
            /\ \A k \in 1..Len(cells) : Get(zoneMap, cells[k]) = zoneIdx

\* C11: every path calculatePaths returns from a border point p of a zone of
\* a valid map to a border point q stays on cells of that zone, has at most 8
\* steps, and every step joins two cells that are 4-adjacent in the grid: a
\* +1 or -1 step never goes from the last column of one row to the first
\* column of the next row or back.
C11_FourConnectedPaths ==
    (pc = "calculateLines" /\ zoneIdx >= 1 /\ ValidMap(data)) =>
        \A cells \in ZonePaths :
            /\ Len(cells) - 1 <= MaxPathLength
            /\ \A k \in 1..Len(cells) : Get(zoneMap, cells[k]) = zoneIdx
            /\ \A k \in 1..(Len(cells) - 1) :
                   GridAdjacent(cells[k], cells[k + 1], data.width)

\* ------------------------------------------------------------------ C12
\* The chunk id of the first cell of line k of the chosen candidate.
StartChunk(k) == ChunkOf(lines[k].line[1], data.width)

\* For lines k.. of the chosen candidate, with currentChunk as writeLines
\* holds it before line k: the loop of checkChunk starts at or below the
\* chunk id of the line, ends, writes (chunk id - currentChunk) one-bits and
\* the terminating zero-bit, and returns the chunk id of the line.
RECURSIVE ChunkAdvances(_, _)
ChunkAdvances(k, currentChunk) ==
    IF k > Len(lines) THEN TRUE
    ELSE LET cc == CheckChunk(currentChunk, lines[k].line[1], data.width)
             d == StartChunk(k) - currentChunk
         IN /\ currentChunk <= StartChunk(k)
            /\ ~cc.hung
            /\ Len(cc.bits) = d + 1
            /\ \A j \in 1..d : cc.bits[j] = 1
            /\ cc.bits[d + 1] = 0
            /\ cc.currentChunk = StartChunk(k)
            /\ ChunkAdvances(k + 1, cc.currentChunk)

\* C12 (chunk order and the chunk-advance loop alone): the lines handed to
\* writeLines for a valid map have non-decreasing starting chunk ids, the
\* loop of checkChunk ends for each of them after writing the difference of
\* the chunk ids as one-bits, and writeLines returns.
C12_ChunkOrder ==
    (pc = "writeLines" /\ ValidMap(data)) =>
        /\ \A k \in 1..(Len(lines) - 1) : StartChunk(k) <= StartChunk(k + 1)
        /\ ChunkAdvances(1, 0)
        /\ ~WriteLines(lines, typeLength, data.width).hung

\* C12: for every valid map the lines handed to writeLines have
\* non-decreasing starting chunk ids, so that for each line the loop of
\* checkChunk starts with currentChunk <= the chunk id of the line, writes
\* exactly (chunk id - currentChunk) one-bits and ends; and encodeMap ends:
\* none of its loops, the one of buildZones included, runs for ever.
C12_ChunkOrderAndTermination ==
    ValidMap(data) =>
        /\ pc = "buildZones" => ~BuildZones(data).hung
        /\ pc = "writeLines" =>
              /\ \A k \in 1..(Len(lines) - 1) : StartChunk(k) <= StartChunk(k + 1)
              /\ ChunkAdvances(1, 0)
              /\ ~WriteLines(lines, typeLength, data.width).hung
        /\ pc # "hung"

====
